---- MODULE Spec2Model ----
(***************************************************************************)
(* Model of convert_gene_trees_to_species_trees_py.py: the mapping-file    *)
(* parser (parse_mapping_file), the leaf rewriter (process_tree_content)  *)
(* and the batch coordinator (main, worker_process_bootstrap_file,        *)
(* process_single_tree_file).                                             *)
(*                                                                         *)
(* Text is a sequence of one-character strings.  A dict is a sequence of  *)
(* <<key, value>> pairs in insertion order, as a Python dict keeps it.    *)
(***************************************************************************)
EXTENDS Integers, Sequences, FiniteSets, TLC

VARIABLES
    \* ---- process_tree_content ----
    tree_content,          \* the text handed to process_tree_content
    is_bootstrap_file,     \* the mode flag: FALSE = PRIMARY, TRUE = BOOTSTRAP
    modified_content,      \* the text being rewritten
    species_done,          \* how many species of species_to_genes_map have had their pass
    pass_input,            \* modified_content before the latest pass
    pass_species,          \* the species of the latest pass (<<>> before the first)
    pass_matches,          \* the spans <<start, length>> the latest pass replaced
    rw_pc,                 \* "loop" | "returned"
    rw_call,               \* 1: first call on tree_content, 2: second call on its result
    first_result,          \* what the first call returned
    \* ---- shared: the table, read by the rewriter, built by the parser ----
    gene_to_species_map,
    \* ---- parse_mapping_file ----
    map_lines,             \* the lines of the mapping file
    line_num,              \* the number of lines consumed
    duplicate_map_warnings,\* the buffered duplicate-mapping warnings
    stderr_out,            \* what parse_mapping_file has printed to stderr, in order
    pm_pc,                 \* "idle" | "open" | "loop" | "returned" | "exit"
    \* ---- main and its workers ----
    mn_pc,                 \* where main is
    boot_list,             \* the lines of the bootstrap list file
    num_workers,           \* args.num_workers
    primary_result,        \* "none" | "ok" | "failed": what the primary rewrite returned
    new_tree_file,         \* the primary output file
    list_pos,              \* the number of list lines consumed
    tasks_for_workers,     \* the source paths handed to the pool, in list order
    bootstrap_paths_not_found_or_unreadable,
    num_actual_workers,    \* the size of the pool (0 before it exists)
    task_state,            \* per task: "queued" | "read" | "done"
    results,               \* per task: what the worker returned
    disk,                  \* the files of the output directory
    processed_new_boot_paths,
    num_boot_processed_successfully,
    num_boot_processing_failed_in_workers,
    new_bootstrap_list_file \* the output list file

rw_vars == <<tree_content, is_bootstrap_file, modified_content, species_done,
             pass_input, pass_species, pass_matches, rw_pc, rw_call, first_result>>

pm_vars == <<map_lines, line_num, duplicate_map_warnings, stderr_out, pm_pc>>

mn_vars == <<mn_pc, boot_list, num_workers, primary_result, new_tree_file, list_pos,
             tasks_for_workers, bootstrap_paths_not_found_or_unreadable,
             num_actual_workers, task_state, results, disk, processed_new_boot_paths,
             num_boot_processed_successfully, num_boot_processing_failed_in_workers,
             new_bootstrap_list_file>>

vars == <<rw_vars, gene_to_species_map, pm_vars, mn_vars>>

(***************************************************************************)
(* Bounds of the model.                                                    *)
(***************************************************************************)
MaxText == 3
MaxGenes == 2

(***************************************************************************)
(* Characters.  Python's \w (str patterns) is letters, digits and "_".    *)
(***************************************************************************)
WordChars == {"A", "B", "S", "T"}

TextAlphabet == {"A", "B", "-", ":", ",", ")"}

IsWordChar(c) == c \in WordChars

GeneNames == {<<"A">>, <<"B">>, <<"A", "B">>, <<"A", "-">>}

SpeciesNames == {<<"S">>, <<"T">>, <<"S", "A">>}

(***************************************************************************)
(* dict operations (insertion-ordered).                                    *)
(***************************************************************************)
DictKeys(d) == {d[i][1] : i \in DOMAIN d}

DictGet(d, k) == d[CHOOSE i \in DOMAIN d : d[i][1] = k][2]

\* a first-listing-wins table: a key already present keeps its value
DictSetKeepFirst(d, k, v) ==
    IF k \in DictKeys(d) THEN d ELSE Append(d, <<k, v>>)

DictSet(d, k, v) ==
    IF k \in DictKeys(d)
    THEN [i \in DOMAIN d |-> IF d[i][1] = k THEN <<k, v>> ELSE d[i]]
    ELSE Append(d, <<k, v>>)

(***************************************************************************)
(* process_tree_content, step 1: species -> list of its genes.            *)
(***************************************************************************)
RECURSIVE GroupBySpecies(_, _)
GroupBySpecies(d, acc) ==
    IF d = <<>> THEN acc
    ELSE LET gene == Head(d)[1]
             species == Head(d)[2]
             sofar == IF species \in DictKeys(acc) THEN DictGet(acc, species) ELSE <<>>
         IN  GroupBySpecies(Tail(d), DictSet(acc, species, Append(sofar, gene)))

species_to_genes_map(d) == GroupBySpecies(d, <<>>)

(***************************************************************************)
(* sorted(gene_names_list, key=len, reverse=True): stable, longest first. *)
(***************************************************************************)
MaxLenOf(names) ==
    IF names = <<>> THEN 0
    ELSE CHOOSE n \in {Len(names[i]) : i \in DOMAIN names} :
            \A i \in DOMAIN names : Len(names[i]) <= n

RECURSIVE SortFrom(_, _)
SortFrom(names, n) ==
    IF n = 0 THEN <<>>
    ELSE LET HasLen(g) == Len(g) = n
         IN  SelectSeq(names, HasLen) \o SortFrom(names, n - 1)

sorted_gene_names_for_species(names) == SortFrom(names, MaxLenOf(names))

(***************************************************************************)
(* The two patterns.  re.escape makes every gene name a literal.          *)
(***************************************************************************)
LiteralAt(content, i, g) ==
    /\ i + Len(g) - 1 <= Len(content)
    /\ SubSeq(content, i, i + Len(g) - 1) = g

\* \b at the gap in front of index j
WordBoundary(content, j) ==
    LET before == j > 1 /\ IsWordChar(content[j - 1])
        after == j <= Len(content) /\ IsWordChar(content[j])
    IN  before # after

\* (?=:)
LookaheadPrimary(content, j) == j <= Len(content) /\ content[j] = ":"

\* (?=[,):]|$)   ($ also matches in front of a final newline)
LookaheadBootstrap(content, j) ==
    \/ j <= Len(content) /\ content[j] \in {",", ")", ":"}
    \/ j = Len(content) + 1
    \/ j = Len(content) /\ content[j] = "\n"

PatternMatchesAt(content, i, g, boot) ==
    /\ LiteralAt(content, i, g)
    /\ IF boot
       THEN /\ WordBoundary(content, i)
            /\ WordBoundary(content, i + Len(g))
            /\ LookaheadBootstrap(content, i + Len(g))
       ELSE LookaheadPrimary(content, i + Len(g))

\* the length the alternation matches at i (first alternative that fits), 0 if none
MatchLen(content, i, alts, boot) ==
    LET fits == {k \in DOMAIN alts : PatternMatchesAt(content, i, alts[k], boot)}
    IN  IF fits = {} THEN 0
        ELSE Len(alts[CHOOSE k \in fits : \A m \in fits : k <= m])

\* re.sub: leftmost, non-overlapping matches, each replaced by repl
RECURSIVE ReSub(_, _, _, _, _)
ReSub(content, i, alts, boot, repl) ==
    IF i > Len(content) THEN <<>>
    ELSE LET n == MatchLen(content, i, alts, boot)
         IN  IF n = 0
             THEN <<content[i]>> \o ReSub(content, i + 1, alts, boot, repl)
             ELSE repl \o ReSub(content, i + n, alts, boot, repl)

\* the spans re.sub replaces
RECURSIVE ReFindSpans(_, _, _, _)
ReFindSpans(content, i, alts, boot) ==
    IF i > Len(content) THEN {}
    ELSE LET n == MatchLen(content, i, alts, boot)
         IN  IF n = 0
             THEN ReFindSpans(content, i + 1, alts, boot)
             ELSE {<<i, n>>} \cup ReFindSpans(content, i + n, alts, boot)

\* one iteration of the species loop
SpeciesPass(content, genes, species, boot) ==
    ReSub(content, 1, sorted_gene_names_for_species(genes), boot, species)

RECURSIVE RunPasses(_, _, _)
RunPasses(content, groups, boot) ==
    IF groups = <<>> THEN content
    ELSE RunPasses(SpeciesPass(content, Head(groups)[2], Head(groups)[1], boot),
                   Tail(groups), boot)

\* the whole function
process_tree_content(content, d, boot) ==
    IF d = <<>> THEN content
    ELSE RunPasses(content, species_to_genes_map(d), boot)

\* the components that take no part in a specification stay as they are here
RewriteIdle ==
    /\ tree_content = <<>>
    /\ is_bootstrap_file = FALSE
    /\ modified_content = <<>>
    /\ species_done = 0
    /\ pass_input = <<>>
    /\ pass_species = <<>>
    /\ pass_matches = {}
    /\ rw_pc = "idle"
    /\ rw_call = 1
    /\ first_result = <<>>

ParseIdle ==
    /\ map_lines = <<>>
    /\ line_num = 0
    /\ duplicate_map_warnings = <<>>
    /\ stderr_out = <<>>
    /\ pm_pc = "idle"

NoFile == [exists |-> FALSE, content |-> <<>>]

MainIdle ==
    /\ mn_pc = "idle"
    /\ boot_list = <<>>
    /\ num_workers = 0
    /\ primary_result = "none"
    /\ new_tree_file = NoFile
    /\ list_pos = 0
    /\ tasks_for_workers = <<>>
    /\ bootstrap_paths_not_found_or_unreadable = 0
    /\ num_actual_workers = 0
    /\ task_state = <<>>
    /\ results = <<>>
    /\ disk = <<>>
    /\ processed_new_boot_paths = <<>>
    /\ num_boot_processed_successfully = 0
    /\ num_boot_processing_failed_in_workers = 0
    /\ new_bootstrap_list_file = [written |-> FALSE, lines |-> <<>>]

(***************************************************************************)
(* process_tree_content as a state machine: one action per loop iteration. *)
(***************************************************************************)
Texts == UNION {[1..n -> TextAlphabet] : n \in 0..MaxText}

Tables ==
    {d \in UNION {[1..n -> GeneNames \X SpeciesNames] : n \in 0..MaxGenes} :
        \A i, j \in DOMAIN d : i # j => d[i][1] # d[j][1]}

RewriteInit ==
    /\ tree_content \in Texts
    /\ gene_to_species_map \in Tables
    /\ is_bootstrap_file \in BOOLEAN
    /\ modified_content = tree_content
    /\ species_done = 0
    /\ pass_input = tree_content
    /\ pass_species = <<>>
    /\ pass_matches = {}
    /\ rw_pc = "loop"
    /\ rw_call = 1
    /\ first_result = <<>>
    /\ ParseIdle
    /\ MainIdle

\* lines 73-74: an empty table returns the text as it is
RewriteEmptyMap ==
    /\ rw_pc = "loop"
    /\ gene_to_species_map = <<>>
    /\ rw_pc' = "returned"
    /\ first_result' = IF rw_call = 1 THEN modified_content ELSE first_result
    /\ UNCHANGED <<tree_content, is_bootstrap_file, modified_content, species_done,
                   pass_input, pass_species, pass_matches, rw_call, gene_to_species_map>>
    /\ UNCHANGED <<pm_vars, mn_vars>>

\* lines 84-103: the pass of the next species
RewritePass ==
    /\ rw_pc = "loop"
    /\ gene_to_species_map # <<>>
    /\ species_done < Len(species_to_genes_map(gene_to_species_map))
    /\ LET group == species_to_genes_map(gene_to_species_map)[species_done + 1]
           alts == sorted_gene_names_for_species(group[2])
       IN  /\ pass_input' = modified_content
           /\ pass_species' = group[1]
           /\ pass_matches' = ReFindSpans(modified_content, 1, alts, is_bootstrap_file)
           /\ modified_content' =
                  SpeciesPass(modified_content, group[2], group[1], is_bootstrap_file)
    /\ species_done' = species_done + 1
    /\ UNCHANGED <<tree_content, is_bootstrap_file, rw_pc, rw_call, first_result,
                   gene_to_species_map>>
    /\ UNCHANGED <<pm_vars, mn_vars>>

\* line 105
RewriteReturn ==
    /\ rw_pc = "loop"
    /\ gene_to_species_map # <<>>
    /\ species_done = Len(species_to_genes_map(gene_to_species_map))
    /\ rw_pc' = "returned"
    /\ first_result' = IF rw_call = 1 THEN modified_content ELSE first_result
    /\ UNCHANGED <<tree_content, is_bootstrap_file, modified_content, species_done,
                   pass_input, pass_species, pass_matches, rw_call, gene_to_species_map>>
    /\ UNCHANGED <<pm_vars, mn_vars>>

\* the caller hands the returned text to process_tree_content again
RewriteAgain ==
    /\ rw_pc = "returned"
    /\ rw_call = 1
    /\ rw_call' = 2
    /\ rw_pc' = "loop"
    /\ species_done' = 0
    /\ pass_input' = modified_content
    /\ pass_species' = <<>>
    /\ pass_matches' = {}
    /\ UNCHANGED <<tree_content, is_bootstrap_file, modified_content, first_result,
                   gene_to_species_map>>
    /\ UNCHANGED <<pm_vars, mn_vars>>

RewriteNext == RewriteEmptyMap \/ RewritePass \/ RewriteReturn \/ RewriteAgain

SpecRewrite == RewriteInit /\ [][RewriteNext]_vars

(***************************************************************************)
(* parse_mapping_file.                                                     *)
(***************************************************************************)
MaxLines == 3

Whitespace == {" ", "\t", "\n", "\r"}

RECURSIVE LStrip(_)
LStrip(s) == IF s # <<>> /\ Head(s) \in Whitespace THEN LStrip(Tail(s)) ELSE s

RECURSIVE RStrip(_)
RStrip(s) ==
    IF s # <<>> /\ s[Len(s)] \in Whitespace THEN RStrip(SubSeq(s, 1, Len(s) - 1)) ELSE s

\* str.strip()
Strip(s) == RStrip(LStrip(s))

\* str.split(sep, maxsplit)
RECURSIVE Split(_, _, _)
Split(s, sep, maxsplit) ==
    LET at == {i \in DOMAIN s : s[i] = sep}
    IN  IF at = {} \/ maxsplit = 0 THEN <<s>>
        ELSE LET i == CHOOSE i \in at : \A j \in at : i <= j
             IN  <<SubSeq(s, 1, i - 1)>> \o Split(SubSeq(s, i + 1, Len(s)), sep, maxsplit - 1)

\* lines 22-24: the stripped line is blank or a comment
IsBlankOrComment(line) ==
    IF Strip(line) = <<>> THEN TRUE ELSE Head(Strip(line)) = "#"

\* line 26
parts(line) == Split(Strip(line), ":", 1)

\* line 31 / line 32
species_name(line) == Strip(parts(line)[1])

genes_list_str(line) == Strip(parts(line)[2])

\* line 41
gene_leafs(line) ==
    LET tokens == Split(genes_list_str(line), ",", Len(genes_list_str(line)))
        stripped == [i \in DOMAIN tokens |-> Strip(tokens[i])]
        NonEmpty(g) == g # <<>>
    IN  SelectSeq(stripped, NonEmpty)

\* lines 43-48: the fold of one line's genes into the table and the warning buffer
RECURSIVE FoldGenes(_, _, _, _, _)
FoldGenes(genes, species, n, d, warnings) ==
    IF genes = <<>> THEN <<d, warnings>>
    ELSE LET g == Head(genes)
             remapped == g \in DictKeys(d) /\ DictGet(d, g) # species
             w == [kind |-> "duplicate", line |-> n, gene |-> g,
                   prev |-> IF remapped THEN DictGet(d, g) ELSE <<>>, new |-> species]
         IN  FoldGenes(Tail(genes), species, n, DictSet(d, g, species),
                       IF remapped THEN Append(warnings, w) ELSE warnings)

\* the mapping files of the model: every kind of line the parser tells apart
MappingLines ==
    { <<"S", ":", "A">>,
      <<"T", ":", "A">>,
      <<"S", ":", "A", ",", "B">>,
      <<" ", "T", " ", ":", "B", ",", " ", "A", " ">>,
      <<"T", ":", "B", ",", ",", "B">>,
      <<"A", "B">>,
      <<":", "A">>,
      <<"S", ":">>,
      <<"#", "T", ":", "A">>,
      <<" ">> }

MappingFiles == UNION {[1..n -> MappingLines] : n \in 0..MaxLines}

ParseInit ==
    /\ map_lines \in MappingFiles
    /\ line_num = 0
    /\ gene_to_species_map = <<>>
    /\ duplicate_map_warnings = <<>>
    /\ stderr_out = <<>>
    /\ pm_pc = "open"
    /\ RewriteIdle
    /\ MainIdle

\* line 20: the file opens
ParseOpen ==
    /\ pm_pc = "open"
    /\ pm_pc' = "loop"
    /\ UNCHANGED <<map_lines, line_num, gene_to_species_map, duplicate_map_warnings,
                   stderr_out>>
    /\ UNCHANGED <<rw_vars, mn_vars>>

\* lines 57-62: the file is missing or unreadable: an error message and sys.exit(1)
ParseOpenFail ==
    /\ pm_pc = "open"
    /\ pm_pc' = "exit"
    /\ stderr_out' = Append(stderr_out, [kind |-> "error", line |-> 0])
    /\ UNCHANGED <<map_lines, line_num, gene_to_species_map, duplicate_map_warnings>>
    /\ UNCHANGED <<rw_vars, mn_vars>>

\* lines 22-24 and 38-39: a blank line, a comment, a species without genes
ParseSkipLine ==
    /\ pm_pc = "loop"
    /\ line_num < Len(map_lines)
    /\ LET line == map_lines[line_num + 1]
       IN  \/ IsBlankOrComment(line)
           \/ /\ ~IsBlankOrComment(line)
              /\ Len(parts(line)) = 2
              /\ species_name(line) # <<>>
              /\ genes_list_str(line) = <<>>
    /\ line_num' = line_num + 1
    /\ UNCHANGED <<map_lines, gene_to_species_map, duplicate_map_warnings, stderr_out, pm_pc>>
    /\ UNCHANGED <<rw_vars, mn_vars>>

\* lines 27-29: no colon: warned at once, skipped
ParseMalformedLine ==
    /\ pm_pc = "loop"
    /\ line_num < Len(map_lines)
    /\ LET line == map_lines[line_num + 1]
       IN  /\ ~IsBlankOrComment(line)
           /\ Len(parts(line)) # 2
    /\ line_num' = line_num + 1
    /\ stderr_out' = Append(stderr_out, [kind |-> "malformed", line |-> line_num + 1])
    /\ UNCHANGED <<map_lines, gene_to_species_map, duplicate_map_warnings, pm_pc>>
    /\ UNCHANGED <<rw_vars, mn_vars>>

\* lines 34-36: an empty species name: warned at once, skipped
ParseEmptySpeciesLine ==
    /\ pm_pc = "loop"
    /\ line_num < Len(map_lines)
    /\ LET line == map_lines[line_num + 1]
       IN  /\ ~IsBlankOrComment(line)
           /\ Len(parts(line)) = 2
           /\ species_name(line) = <<>>
    /\ line_num' = line_num + 1
    /\ stderr_out' = Append(stderr_out, [kind |-> "empty_species", line |-> line_num + 1])
    /\ UNCHANGED <<map_lines, gene_to_species_map, duplicate_map_warnings, pm_pc>>
    /\ UNCHANGED <<rw_vars, mn_vars>>

\* the remappings are printed where they are found instead of being buffered
ParseGeneLinePrintsAtOnce ==
    /\ pm_pc = "loop"
    /\ line_num < Len(map_lines)
    /\ LET line == map_lines[line_num + 1]
       IN  /\ ~IsBlankOrComment(line)
           /\ Len(parts(line)) = 2
           /\ species_name(line) # <<>>
           /\ genes_list_str(line) # <<>>
           /\ LET folded == FoldGenes(gene_leafs(line), species_name(line), line_num + 1,
                                      gene_to_species_map, <<>>)
              IN  /\ gene_to_species_map' = folded[1]
                  /\ stderr_out' = stderr_out \o folded[2]
    /\ line_num' = line_num + 1
    /\ UNCHANGED <<map_lines, duplicate_map_warnings, pm_pc>>
    /\ UNCHANGED <<rw_vars, mn_vars>>

\* lines 41-48: the genes of the line go into the table, remappings into the buffer
ParseGeneLine ==
    /\ pm_pc = "loop"
    /\ line_num < Len(map_lines)
    /\ LET line == map_lines[line_num + 1]
       IN  /\ ~IsBlankOrComment(line)
           /\ Len(parts(line)) = 2
           /\ species_name(line) # <<>>
           /\ genes_list_str(line) # <<>>
           /\ LET folded == FoldGenes(gene_leafs(line), species_name(line), line_num + 1,
                                      gene_to_species_map, duplicate_map_warnings)
              IN  /\ gene_to_species_map' = folded[1]
                  /\ duplicate_map_warnings' = folded[2]
    /\ line_num' = line_num + 1
    /\ UNCHANGED <<map_lines, stderr_out, pm_pc>>
    /\ UNCHANGED <<rw_vars, mn_vars>>

\* lines 50-56: the buffered warnings are printed, then the empty-table warning
ParseFinish ==
    /\ pm_pc = "loop"
    /\ line_num = Len(map_lines)
    /\ stderr_out' =
           stderr_out \o duplicate_map_warnings
                      \o (IF gene_to_species_map = <<>>
                          THEN <<[kind |-> "empty_table", line |-> 0]>> ELSE <<>>)
    /\ pm_pc' = "returned"
    /\ UNCHANGED <<map_lines, line_num, gene_to_species_map, duplicate_map_warnings>>
    /\ UNCHANGED <<rw_vars, mn_vars>>

ParseNext ==
    \/ ParseOpen
    \/ ParseOpenFail
    \/ ParseSkipLine
    \/ ParseMalformedLine
    \/ ParseEmptySpeciesLine
    \/ ParseGeneLine
    \/ ParseFinish

SpecParse == ParseInit /\ [][ParseNext]_vars

(***************************************************************************)
(* main, process_single_tree_file and worker_process_bootstrap_file.      *)
(***************************************************************************)
MaxList == 3

\* os.path.basename
basename(path) ==
    LET slashes == {i \in DOMAIN path : path[i] = "/"}
    IN  IF slashes = {} THEN path
        ELSE SubSeq(path, (CHOOSE i \in slashes : \A j \in slashes : j <= i) + 1, Len(path))

\* os.path.join(directory, name), name relative
join(directory, name) == directory \o <<"/">> \o name

\* line 199
new_bootstrap_dir == <<"o">>

\* line 247: rstrip('\r\n').strip()
original_boot_file_path(raw) == Strip(raw)

\* the lines a bootstrap list file of the model is made of
BootLines ==
    { <<"a", "/", "x", "\n">>,
      <<"b", "/", "x", "\n">>,
      <<" ", "a", "/", "y", "\n">>,
      <<"c", "/", "z", "\n">>,
      <<"\n">> }

\* the auxiliary files that exist, with their content; c/z does not exist
SourceFiles ==
    { <<"a", "/", "x">>, <<"b", "/", "x">>, <<"a", "/", "y">> }

SourceText(path) ==
    CASE path = <<"a", "/", "x">> -> <<"A", ",", "B">>
      [] path = <<"b", "/", "x">> -> <<"B", ",", "A">>
      [] OTHER -> <<"A", ":", "B">>

PrimaryText == <<"A", ":", "B", ":">>

\* os.path.isfile
isfile(path) == path \in SourceFiles

OutPaths ==
    {join(new_bootstrap_dir, basename(Strip(l))) : l \in {b \in BootLines : Strip(b) # <<>>}}

NumWorkerArgs == {0, 2, 3}

MainTables == { <<>>, << <<<<"A">>, <<"S">>>>, <<<<"B">>, <<"T">>>> >> }

None == [ok |-> FALSE, path |-> <<>>]

MainInit ==
    /\ mn_pc = "validate"
    /\ boot_list \in UNION {[1..n -> BootLines] : n \in 0..MaxList}
    /\ num_workers \in NumWorkerArgs
    /\ primary_result = "none"
    /\ new_tree_file = NoFile
    /\ list_pos = 0
    /\ tasks_for_workers = <<>>
    /\ bootstrap_paths_not_found_or_unreadable = 0
    /\ num_actual_workers = 0
    /\ task_state = <<>>
    /\ results = <<>>
    /\ disk = [o \in OutPaths |-> NoFile]
    /\ processed_new_boot_paths = <<>>
    /\ num_boot_processed_successfully = 0
    /\ num_boot_processing_failed_in_workers = 0
    /\ new_bootstrap_list_file = [written |-> FALSE, lines |-> <<>>]
    /\ gene_to_species_map = <<>>
    /\ RewriteIdle
    /\ ParseIdle

\* lines 203-219: the inputs are files and readable, the output directory exists
MainSetup ==
    /\ mn_pc = "validate"
    /\ mn_pc' = "parse"
    /\ UNCHANGED <<boot_list, num_workers, primary_result, new_tree_file, list_pos,
                   tasks_for_workers, bootstrap_paths_not_found_or_unreadable,
                   num_actual_workers, task_state, results, disk,
                   processed_new_boot_paths, num_boot_processed_successfully,
                   num_boot_processing_failed_in_workers, new_bootstrap_list_file>>
    /\ UNCHANGED <<rw_vars, pm_vars, gene_to_species_map>>

\* lines 204-211 and 217-219: an input is missing or the directory cannot be made
MainSetupFail ==
    /\ mn_pc = "validate"
    /\ mn_pc' = "exit"
    /\ UNCHANGED <<boot_list, num_workers, primary_result, new_tree_file, list_pos,
                   tasks_for_workers, bootstrap_paths_not_found_or_unreadable,
                   num_actual_workers, task_state, results, disk,
                   processed_new_boot_paths, num_boot_processed_successfully,
                   num_boot_processing_failed_in_workers, new_bootstrap_list_file>>
    /\ UNCHANGED <<rw_vars, pm_vars, gene_to_species_map>>

\* line 223: parse_mapping_file returns a table (possibly empty)
MainParseMapping ==
    /\ mn_pc = "parse"
    /\ gene_to_species_map' \in MainTables
    /\ mn_pc' = "primary"
    /\ UNCHANGED <<boot_list, num_workers, primary_result, new_tree_file, list_pos,
                   tasks_for_workers, bootstrap_paths_not_found_or_unreadable,
                   num_actual_workers, task_state, results, disk,
                   processed_new_boot_paths, num_boot_processed_successfully,
                   num_boot_processing_failed_in_workers, new_bootstrap_list_file>>
    /\ UNCHANGED <<rw_vars, pm_vars>>

\* line 223 with lines 57-62: parse_mapping_file exits
MainParseMappingExit ==
    /\ mn_pc = "parse"
    /\ mn_pc' = "exit"
    /\ UNCHANGED <<boot_list, num_workers, primary_result, new_tree_file, list_pos,
                   tasks_for_workers, bootstrap_paths_not_found_or_unreadable,
                   num_actual_workers, task_state, results, disk,
                   processed_new_boot_paths, num_boot_processed_successfully,
                   num_boot_processing_failed_in_workers, new_bootstrap_list_file>>
    /\ UNCHANGED <<rw_vars, pm_vars, gene_to_species_map>>

\* line 233, process_single_tree_file returns True: the primary output is written
PrimaryRewrite ==
    /\ mn_pc = "primary"
    /\ new_tree_file' =
           [exists |-> TRUE,
            content |-> process_tree_content(PrimaryText, gene_to_species_map, FALSE)]
    /\ primary_result' = "ok"
    /\ mn_pc' = "readlist"
    /\ UNCHANGED <<boot_list, num_workers, list_pos,
                   tasks_for_workers, bootstrap_paths_not_found_or_unreadable,
                   num_actual_workers, task_state, results, disk,
                   processed_new_boot_paths, num_boot_processed_successfully,
                   num_boot_processing_failed_in_workers, new_bootstrap_list_file>>
    /\ UNCHANGED <<rw_vars, pm_vars, gene_to_species_map>>

\* the failure of the primary rewrite is reported and the run goes on
PrimaryRewriteFailGoesOn ==
    /\ mn_pc = "primary"
    /\ new_tree_file' \in {NoFile, [exists |-> TRUE, content |-> <<>>]}
    /\ primary_result' = "failed"
    /\ mn_pc' = "readlist"
    /\ UNCHANGED <<boot_list, num_workers, list_pos,
                   tasks_for_workers, bootstrap_paths_not_found_or_unreadable,
                   num_actual_workers, task_state, results, disk,
                   processed_new_boot_paths, num_boot_processed_successfully,
                   num_boot_processing_failed_in_workers, new_bootstrap_list_file>>
    /\ UNCHANGED <<rw_vars, pm_vars, gene_to_species_map>>

\* lines 233-235, process_single_tree_file returns False (the read failed, or the
\* write failed with the output absent or truncated): sys.exit(1)
PrimaryRewriteFail ==
    /\ mn_pc = "primary"
    /\ new_tree_file' \in {NoFile, [exists |-> TRUE, content |-> <<>>]}
    /\ primary_result' = "failed"
    /\ mn_pc' = "exit"
    /\ UNCHANGED <<boot_list, num_workers, list_pos,
                   tasks_for_workers, bootstrap_paths_not_found_or_unreadable,
                   num_actual_workers, task_state, results, disk,
                   processed_new_boot_paths, num_boot_processed_successfully,
                   num_boot_processing_failed_in_workers, new_bootstrap_list_file>>
    /\ UNCHANGED <<rw_vars, pm_vars, gene_to_species_map>>

\* lines 245-255: one line of the bootstrap list
ReadListLine ==
    /\ mn_pc = "readlist"
    /\ list_pos < Len(boot_list)
    /\ LET path == original_boot_file_path(boot_list[list_pos + 1])
       IN  IF path = <<>>
           THEN UNCHANGED <<tasks_for_workers, bootstrap_paths_not_found_or_unreadable>>
           ELSE IF ~isfile(path)
           THEN /\ bootstrap_paths_not_found_or_unreadable' =
                       bootstrap_paths_not_found_or_unreadable + 1
                /\ UNCHANGED tasks_for_workers
           ELSE /\ tasks_for_workers' = Append(tasks_for_workers, path)
                /\ UNCHANGED bootstrap_paths_not_found_or_unreadable
    /\ list_pos' = list_pos + 1
    /\ UNCHANGED <<mn_pc, boot_list, num_workers, primary_result, new_tree_file,
                   num_actual_workers, task_state, results, disk,
                   processed_new_boot_paths, num_boot_processed_successfully,
                   num_boot_processing_failed_in_workers, new_bootstrap_list_file>>
    /\ UNCHANGED <<rw_vars, pm_vars, gene_to_species_map>>

\* lines 256-261: the list file cannot be read: sys.exit(1)
ReadListFail ==
    /\ mn_pc = "readlist"
    /\ list_pos = 0
    /\ mn_pc' = "exit"
    /\ UNCHANGED <<boot_list, num_workers, primary_result, new_tree_file, list_pos,
                   tasks_for_workers, bootstrap_paths_not_found_or_unreadable,
                   num_actual_workers, task_state, results, disk,
                   processed_new_boot_paths, num_boot_processed_successfully,
                   num_boot_processing_failed_in_workers, new_bootstrap_list_file>>
    /\ UNCHANGED <<rw_vars, pm_vars, gene_to_species_map>>

\* lines 265-266
pool_size(wanted, ntasks) ==
    LET n == IF wanted < ntasks THEN wanted ELSE ntasks
    IN  IF n <= 0 THEN 1 ELSE n

\* lines 263-271: the pool is made and the tasks are handed to it
PoolStart ==
    /\ mn_pc = "readlist"
    /\ list_pos = Len(boot_list)
    /\ tasks_for_workers # <<>>
    /\ num_actual_workers' = pool_size(num_workers, Len(tasks_for_workers))
    /\ task_state' = [i \in DOMAIN tasks_for_workers |-> "queued"]
    /\ results' = [i \in DOMAIN tasks_for_workers |-> None]
    /\ mn_pc' = "workers"
    /\ UNCHANGED <<boot_list, num_workers, primary_result, new_tree_file, list_pos,
                   tasks_for_workers, bootstrap_paths_not_found_or_unreadable, disk,
                   processed_new_boot_paths, num_boot_processed_successfully,
                   num_boot_processing_failed_in_workers, new_bootstrap_list_file>>
    /\ UNCHANGED <<rw_vars, pm_vars, gene_to_species_map>>

\* lines 276-279: nothing to process
NoTasks ==
    /\ mn_pc = "readlist"
    /\ list_pos = Len(boot_list)
    /\ tasks_for_workers = <<>>
    /\ num_boot_processed_successfully' = 0
    /\ num_boot_processing_failed_in_workers' = 0
    /\ mn_pc' = "writelist"
    /\ UNCHANGED <<boot_list, num_workers, primary_result, new_tree_file, list_pos,
                   tasks_for_workers, bootstrap_paths_not_found_or_unreadable,
                   num_actual_workers, task_state, results, disk,
                   processed_new_boot_paths, new_bootstrap_list_file>>
    /\ UNCHANGED <<rw_vars, pm_vars, gene_to_species_map>>

\* a pool process is free, and i is the next task of the queue
CanTake(i) ==
    /\ task_state[i] = "queued"
    /\ \A j \in DOMAIN task_state : j < i => task_state[j] # "queued"
    /\ Cardinality({j \in DOMAIN task_state : task_state[j] = "read"}) < num_actual_workers

\* lines 145-146
new_boot_file_path(source) == join(new_bootstrap_dir, basename(source))

\* lines 115-116 in a worker: a free process takes task i and reads its source
WorkerRead(i) ==
    /\ mn_pc = "workers"
    /\ CanTake(i)
    /\ task_state' = [task_state EXCEPT ![i] = "read"]
    /\ UNCHANGED <<mn_pc, boot_list, num_workers, primary_result, new_tree_file, list_pos,
                   tasks_for_workers, bootstrap_paths_not_found_or_unreadable,
                   num_actual_workers, results, disk,
                   processed_new_boot_paths, num_boot_processed_successfully,
                   num_boot_processing_failed_in_workers, new_bootstrap_list_file>>
    /\ UNCHANGED <<rw_vars, pm_vars, gene_to_species_map>>

\* lines 124-130, 172-174: the read fails, the worker returns None
WorkerReadFail(i) ==
    /\ mn_pc = "workers"
    /\ CanTake(i)
    /\ task_state' = [task_state EXCEPT ![i] = "done"]
    /\ results' = [results EXCEPT ![i] = None]
    /\ UNCHANGED <<mn_pc, boot_list, num_workers, primary_result, new_tree_file, list_pos,
                   tasks_for_workers, bootstrap_paths_not_found_or_unreadable,
                   num_actual_workers, disk,
                   processed_new_boot_paths, num_boot_processed_successfully,
                   num_boot_processing_failed_in_workers, new_bootstrap_list_file>>
    /\ UNCHANGED <<rw_vars, pm_vars, gene_to_species_map>>

\* lines 119-123, 171: the rewritten text is written, the worker returns the new path
WorkerWrite(i) ==
    /\ mn_pc = "workers"
    /\ task_state[i] = "read"
    /\ LET out == new_boot_file_path(tasks_for_workers[i])
       IN  /\ disk' = [disk EXCEPT ![out] =
                          [exists |-> TRUE,
                           content |-> process_tree_content(
                               SourceText(tasks_for_workers[i]), gene_to_species_map, TRUE)]]
           /\ results' = [results EXCEPT ![i] = [ok |-> TRUE, path |-> out]]
    /\ task_state' = [task_state EXCEPT ![i] = "done"]
    /\ UNCHANGED <<mn_pc, boot_list, num_workers, primary_result, new_tree_file, list_pos,
                   tasks_for_workers, bootstrap_paths_not_found_or_unreadable,
                   num_actual_workers,
                   processed_new_boot_paths, num_boot_processed_successfully,
                   num_boot_processing_failed_in_workers, new_bootstrap_list_file>>
    /\ UNCHANGED <<rw_vars, pm_vars, gene_to_species_map>>

\* lines 121-122, 128-130, 172-174: the output cannot be opened (the disk stays as it
\* is) or the write fails after open(..., 'w') truncated it; the worker returns None
WorkerWriteFail(i) ==
    /\ mn_pc = "workers"
    /\ task_state[i] = "read"
    /\ LET out == new_boot_file_path(tasks_for_workers[i])
       IN  \/ UNCHANGED disk
           \/ disk' = [disk EXCEPT ![out] = [exists |-> TRUE, content |-> <<>>]]
    /\ results' = [results EXCEPT ![i] = None]
    /\ task_state' = [task_state EXCEPT ![i] = "done"]
    /\ UNCHANGED <<mn_pc, boot_list, num_workers, primary_result, new_tree_file, list_pos,
                   tasks_for_workers, bootstrap_paths_not_found_or_unreadable,
                   num_actual_workers,
                   processed_new_boot_paths, num_boot_processed_successfully,
                   num_boot_processing_failed_in_workers, new_bootstrap_list_file>>
    /\ UNCHANGED <<rw_vars, pm_vars, gene_to_species_map>>

\* every result is kept, the None of a failed task too
all_paths(res) == [k \in DOMAIN res |-> res[k].path]

\* line 273: [path for path in results if path is not None]
successful_paths(res) ==
    LET IsPath(r) == r.ok
        kept == SelectSeq(res, IsPath)
    IN  [k \in DOMAIN kept |-> kept[k].path]

\* lines 271-275: starmap returns when every task is done
PoolCollect ==
    /\ mn_pc = "workers"
    /\ \A i \in DOMAIN task_state : task_state[i] = "done"
    /\ processed_new_boot_paths' = successful_paths(results)
    /\ num_boot_processed_successfully' = Len(successful_paths(results))
    /\ num_boot_processing_failed_in_workers' =
           Len(tasks_for_workers) - Len(successful_paths(results))
    /\ mn_pc' = "writelist"
    /\ UNCHANGED <<boot_list, num_workers, primary_result, new_tree_file, list_pos,
                   tasks_for_workers, bootstrap_paths_not_found_or_unreadable,
                   num_actual_workers, task_state, results, disk,
                   new_bootstrap_list_file>>
    /\ UNCHANGED <<rw_vars, pm_vars, gene_to_species_map>>

\* lines 281-286, 290-304: the list of the new paths is written, one per line
WriteList ==
    /\ mn_pc = "writelist"
    /\ new_bootstrap_list_file' = [written |-> TRUE, lines |-> processed_new_boot_paths]
    /\ mn_pc' = "done"
    /\ UNCHANGED <<boot_list, num_workers, primary_result, new_tree_file, list_pos,
                   tasks_for_workers, bootstrap_paths_not_found_or_unreadable,
                   num_actual_workers, task_state, results, disk,
                   processed_new_boot_paths, num_boot_processed_successfully,
                   num_boot_processing_failed_in_workers>>
    /\ UNCHANGED <<rw_vars, pm_vars, gene_to_species_map>>

\* lines 287-288, 290-304: the list file cannot be opened: an error message, no exit
WriteListFail ==
    /\ mn_pc = "writelist"
    /\ mn_pc' = "done"
    /\ UNCHANGED <<boot_list, num_workers, primary_result, new_tree_file, list_pos,
                   tasks_for_workers, bootstrap_paths_not_found_or_unreadable,
                   num_actual_workers, task_state, results, disk,
                   processed_new_boot_paths, num_boot_processed_successfully,
                   num_boot_processing_failed_in_workers, new_bootstrap_list_file>>
    /\ UNCHANGED <<rw_vars, pm_vars, gene_to_species_map>>

MainNext ==
    \/ MainSetup
    \/ MainSetupFail
    \/ MainParseMapping
    \/ MainParseMappingExit
    \/ PrimaryRewrite
    \/ PrimaryRewriteFail
    \/ ReadListLine
    \/ ReadListFail
    \/ PoolStart
    \/ NoTasks
    \/ \E i \in 1..(MaxList + 1) :
          /\ i \in DOMAIN task_state
          /\ \/ WorkerRead(i)
             \/ WorkerReadFail(i)
             \/ WorkerWrite(i)
             \/ WorkerWriteFail(i)
    \/ PoolCollect
    \/ WriteList
    \/ WriteListFail

SpecMain == MainInit /\ [][MainNext]_vars

(***************************************************************************)
(* Properties of process_tree_content (checked under SpecRewrite).        *)
(***************************************************************************)
\* the span of n characters at i is a complete token of the tree text
IsWholeToken(content, i, n) ==
    /\ IF i = 1 THEN TRUE ELSE content[i - 1] \in {"(", ","}
    /\ IF i + n > Len(content) THEN TRUE ELSE content[i + n] \in {":", ",", ")"}

IsLeafLabelAt(content, i, g) == LiteralAt(content, i, g) /\ IsWholeToken(content, i, Len(g))

HasPrefix(content, prefix) ==
    Len(prefix) <= Len(content) /\ SubSeq(content, 1, Len(prefix)) = prefix

IsProperPrefix(g1, g2) == Len(g1) < Len(g2) /\ HasPrefix(g2, g1)

GenesOfSpecies(d, species) == {g \in DictKeys(d) : DictGet(d, g) = species}

SpeciesOrders(d) ==
    LET groups == species_to_genes_map(d)
    IN  {[i \in DOMAIN groups |-> groups[f[i]]] : f \in Permutations(DOMAIN groups)}

\* C1: the text process_tree_content returns is the text the species passes give
\* in every other order of the species.
C1_OrderIndependent ==
    (rw_pc = "returned" /\ rw_call = 1 /\ gene_to_species_map # <<>>) =>
        \A order \in SpeciesOrders(gene_to_species_map) :
            RunPasses(tree_content, order, is_bootstrap_file) = modified_content

\* C2: every span a pass replaces is a complete token of the text the pass ran on:
\* start-of-text, "(" or "," on its left and ":", ",", ")" or end-of-text on its right.
C2_WholeTokenOnly ==
    \A m \in pass_matches : IsWholeToken(pass_input, m[1], m[2])

\* C4: in PRIMARY mode, when g1 is a proper prefix of g2 and they map to distinct
\* species, a text that starts with g2 followed by ":" comes back starting with the
\* species of g2 followed by ":".
C4_LongestMatch ==
    (rw_pc = "returned" /\ rw_call = 1 /\ ~is_bootstrap_file) =>
        \A g1, g2 \in DictKeys(gene_to_species_map) :
            ( /\ IsProperPrefix(g1, g2)
              /\ DictGet(gene_to_species_map, g1) # DictGet(gene_to_species_map, g2)
              /\ HasPrefix(tree_content, g2 \o <<":">>) )
            => HasPrefix(modified_content, DictGet(gene_to_species_map, g2) \o <<":">>)

\* C5: in PRIMARY mode a pass replaces a gene name only where ":" follows it; in
\* BOOTSTRAP mode the pass of a species replaces every occurrence of one of its gene
\* names that stands as a leaf label followed by ",", ")", ":" or end-of-input.
C5_ContextSensitive ==
    /\ ~is_bootstrap_file =>
           \A m \in pass_matches : LookaheadPrimary(pass_input, m[1] + m[2])
    /\ (is_bootstrap_file /\ pass_species # <<>>) =>
           \A g \in GenesOfSpecies(gene_to_species_map, pass_species) :
               \A i \in DOMAIN pass_input :
                   IsLeafLabelAt(pass_input, i, g) => <<i, Len(g)>> \in pass_matches

\* C6: in PRIMARY mode, with no species name a key of the table, the second call
\* returns what the first call returned.
C6_Idempotent ==
    ( /\ rw_pc = "returned"
      /\ rw_call = 2
      /\ ~is_bootstrap_file
      /\ \A i \in DOMAIN gene_to_species_map :
             gene_to_species_map[i][2] \notin DictKeys(gene_to_species_map) )
    => modified_content = first_result

(***************************************************************************)
(* Properties of parse_mapping_file (checked under SpecParse).            *)
(***************************************************************************)
\* a line the parser takes as "species:genes"
IsMappingLine(line) ==
    IF IsBlankOrComment(line) THEN FALSE
    ELSE IF Len(parts(line)) # 2 THEN FALSE
    ELSE species_name(line) # <<>>

\* the listings <<gene, species, line number>> of the first n lines, in file order
RECURSIVE Listings(_, _)
Listings(lines, n) ==
    IF n = 0 THEN <<>>
    ELSE Listings(lines, n - 1) \o
         (IF IsMappingLine(lines[n])
          THEN [k \in DOMAIN gene_leafs(lines[n]) |->
                   [gene |-> gene_leafs(lines[n])[k],
                    species |-> species_name(lines[n]),
                    line |-> n]]
          ELSE <<>>)

\* the listing of the same gene that comes last before listing i (0 if none)
PreviousListing(L, i) ==
    LET earlier == {j \in 1..(i - 1) : L[j].gene = L[i].gene}
    IN  IF earlier = {} THEN 0 ELSE CHOOSE j \in earlier : \A k \in earlier : k <= j

\* the listings that put a gene under another species than its previous listing
Relistings(L) ==
    LET IsRelisting(i) ==
            IF PreviousListing(L, i) = 0 THEN FALSE
            ELSE L[PreviousListing(L, i)].species # L[i].species
        marked == [i \in DOMAIN L |-> [at |-> i, hit |-> IsRelisting(i)]]
        Hit(r) == r.hit
        kept == SelectSeq(marked, Hit)
    IN  [k \in DOMAIN kept |-> kept[k].at]

\* C3: every gene listed in the lines read so far is a key of the table exactly
\* once, bound to the species of the last line listing it; each listing under
\* another species than before put one warning in the buffer, in order, and the
\* parser went on.
C3_LastLineWins ==
    pm_pc \in {"loop", "returned"} =>
        LET L == Listings(map_lines, line_num)
            R == Relistings(L)
            d == gene_to_species_map
        IN  /\ DictKeys(d) = {L[i].gene : i \in DOMAIN L}
            /\ \A i, j \in DOMAIN d : d[i][1] = d[j][1] => i = j
            /\ \A i \in DOMAIN L :
                   (\A j \in DOMAIN L : j > i => L[j].gene # L[i].gene)
                   => DictGet(d, L[i].gene) = L[i].species
            /\ Len(duplicate_map_warnings) = Len(R)
            /\ \A k \in DOMAIN R :
                   /\ duplicate_map_warnings[k].gene = L[R[k]].gene
                   /\ duplicate_map_warnings[k].new = L[R[k]].species
                   /\ duplicate_map_warnings[k].prev = L[PreviousListing(L, R[k])].species
                   /\ duplicate_map_warnings[k].line = L[R[k]].line

\* C3 happens: the parser returned after a gene was listed again under another species
C3_Witness ==
    /\ pm_pc = "returned"
    /\ duplicate_map_warnings # <<>>
    /\ \E k \in DOMAIN duplicate_map_warnings :
           DictGet(gene_to_species_map, duplicate_map_warnings[k].gene)
               = duplicate_map_warnings[k].new

IsImmediate(w) == w.kind \in {"malformed", "empty_species"}

\* the warnings but the empty-table one
LineWarnings(out) ==
    LET HasLine(w) == w.kind # "empty_table"
    IN  SelectSeq(out, HasLine)

\* the empty-table warning, if printed, is the last thing printed
EmptyTableLast(out) ==
    \A i \in DOMAIN out : out[i].kind = "empty_table" => i = Len(out)

\* C10 as stated: the warnings parse_mapping_file printed are in the order of the
\* lines that caused them, the empty-table warning last.
C10_LineOrder ==
    pm_pc = "returned" =>
        /\ EmptyTableLast(stderr_out)
        /\ LET W == LineWarnings(stderr_out)
           IN  \A i, j \in DOMAIN W : i < j => W[i].line <= W[j].line

\* C10 as amended: the malformed-line and empty-species warnings come first, in line
\* order; the duplicate-mapping warnings follow, in line order among themselves; the
\* empty-table warning, if any, is last.
C10_ImmediateThenBuffered ==
    pm_pc = "returned" =>
        /\ EmptyTableLast(stderr_out)
        /\ LET W == LineWarnings(stderr_out)
           IN  /\ \A i, j \in DOMAIN W :
                      (i < j /\ IsImmediate(W[i]) /\ IsImmediate(W[j]))
                      => W[i].line < W[j].line
               /\ \A i, j \in DOMAIN W :
                      (i < j /\ W[i].kind = "duplicate" /\ W[j].kind = "duplicate")
                      => W[i].line <= W[j].line
               /\ \A i, j \in DOMAIN W :
                      (IsImmediate(W[i]) /\ W[j].kind = "duplicate") => i < j
               /\ \A i \in DOMAIN W : IsImmediate(W[i]) \/ W[i].kind = "duplicate"

\* C10 happens: a duplicate-mapping warning of an earlier line was printed after the
\* warning of a later malformed line
C10_Witness ==
    /\ pm_pc = "returned"
    /\ \E i, j \in DOMAIN stderr_out :
           /\ i < j
           /\ IsImmediate(stderr_out[i])
           /\ stderr_out[j].kind = "duplicate"
           /\ stderr_out[j].line < stderr_out[i].line

(***************************************************************************)
(* Properties of main and its workers (checked under SpecMain).           *)
(***************************************************************************)
\* something has been done about the auxiliary files
AuxiliaryTouched ==
    \/ list_pos > 0
    \/ tasks_for_workers # <<>>
    \/ bootstrap_paths_not_found_or_unreadable > 0
    \/ num_actual_workers > 0
    \/ task_state # <<>>
    \/ \E o \in DOMAIN disk : disk[o].exists
    \/ new_bootstrap_list_file.written
    \/ mn_pc \in {"readlist", "workers", "writelist", "done"}

\* C7: nothing is done about the auxiliary files before the primary rewrite returned
\* success, and a failed primary rewrite ends the run with nothing done about them.
C7_PrimaryFirst ==
    /\ AuxiliaryTouched => primary_result = "ok" /\ new_tree_file.exists
    /\ primary_result = "failed" => mn_pc = "exit" /\ ~AuxiliaryTouched

\* C7 happens: the primary rewrite failed
C7_Witness ==
    /\ primary_result = "failed"
    /\ mn_pc = "exit"

\* the task behind the k-th line of the output list: the k-th task that succeeded
SuccessfulTasks ==
    LET marked == [i \in DOMAIN results |-> [at |-> i, ok |-> results[i].ok]]
        Ok(r) == r.ok
        kept == SelectSeq(marked, Ok)
    IN  [k \in DOMAIN kept |-> kept[k].at]

\* C8: for distinct source paths, once the list is written, its lines are the outputs
\* of the successful tasks, one line each; every line names a file on disk holding the
\* rewrite of that task's own source; no two lines name the same file.
C8_ListMatchesDisk ==
    ( /\ mn_pc = "done"
      /\ new_bootstrap_list_file.written
      /\ \A i, j \in DOMAIN tasks_for_workers :
             tasks_for_workers[i] = tasks_for_workers[j] => i = j ) =>
        LET lines == new_bootstrap_list_file.lines
            T == SuccessfulTasks
        IN  /\ Len(lines) = Len(T)
            /\ \A k \in DOMAIN lines :
                   /\ disk[lines[k]].exists
                   /\ disk[lines[k]].content =
                          process_tree_content(SourceText(tasks_for_workers[T[k]]),
                                               gene_to_species_map, TRUE)
            /\ \A j, k \in DOMAIN lines : lines[j] = lines[k] => j = k

\* the non-blank paths of the list, and those of them that exist
ListedPaths ==
    LET stripped == [i \in DOMAIN boot_list |-> original_boot_file_path(boot_list[i])]
        NonBlank(q) == q # <<>>
    IN  SelectSeq(stripped, NonBlank)

ExistingListedPaths == SelectSeq(ListedPaths, isfile)

====
